---- MODULE Spec2Model ----
(***************************************************************************)
(* The hishtory synchronisation relay (backend/server/server.go).          *)
(*                                                                         *)
(* The relational store is five tables; a table without a primary key is   *)
(* a multiset of rows, modelled as a bag.  Every HTTP handler is one       *)
(* action in the sequential specifications; the concurrent specifications  *)
(* split a handler at its store statements.  A handler that panics keeps   *)
(* the writes it made before the panic (only submit-dump runs inside a     *)
(* transaction).  Timestamps (RegistrationDate, RequestTime, SendTime,     *)
(* LastUsed) and the registration IP are write-only in the relay and are   *)
(* left out of the rows.                                                   *)
(***************************************************************************)
EXTENDS Bags, FiniteSets, Integers, Sequences, TLC

VARIABLES
    devices,           \* table devices: bag of [userId, deviceId]
    entries,           \* table enc_history_entries: bag of entry rows
    usage,             \* table usage_data: bag of [userId, deviceId, numEntriesHandled]
    dumpRequests,      \* table dump_requests: bag of [userId, requestingDeviceId]
    deletionRequests,  \* table deletion_requests: bag of deletion request rows
    ReleaseVersion,    \* the process-wide resolved version
    last,              \* the last request served and its response
    procs,             \* the in-flight requests of the concurrent specifications
    upstream           \* what the release feed and the artifact URLs answered to
                       \* the latest cron cycle

tables == <<devices, entries, usage, dumpRequests, deletionRequests>>
vars ==
    <<devices, entries, usage, dumpRequests, deletionRequests, ReleaseVersion, last, procs,
      upstream>>

----------------------------------------------------------------------------
(* Thresholds of the program. *)

QueryReadCountLimit == 5
CleanEntriesReadCount == 10
CleanDeletionsReadCount == 100

----------------------------------------------------------------------------
(* Rows and request bodies. *)

\* An entry as a client encrypts it: the opaque payload hides the plaintext
\* command, which carries the device that ran it and its end time.
MkEntry(u, d, t, rc) ==
    [userId |-> u, deviceId |-> d, date |-> t, encryptedData |-> <<d, t>>, readCount |-> rc]

MkDevice(u, d) == [userId |-> u, deviceId |-> d]

MkDumpRequest(u, d) == [userId |-> u, requestingDeviceId |-> d]

MkDeletionRequest(u, dest, msgs, rc) ==
    [userId |-> u, destinationDeviceId |-> dest, messages |-> msgs, readCount |-> rc]

MkMessage(d, t) == [deviceId |-> d, date |-> t]

----------------------------------------------------------------------------
(* The store's statements. *)

\* INSERT of one row.
Create(table, row) == table (+) SetToBag({row})

\* The statements below take their WHERE clause as the set of the rows that
\* satisfy it.

\* SELECT ... WHERE: the matching rows, each as often as the table holds it.
Where(table, matching) == [r \in DOMAIN table \cap matching |-> table[r]]

\* DELETE ... WHERE.
DeleteWhere(table, matching) == [r \in DOMAIN table \ matching |-> table[r]]

\* UPDATE ... SET read_count = read_count + 1 WHERE.
ResetReadCount(table, matching) ==
    BagOfAll(LAMBDA r : IF r \in matching THEN [r EXCEPT !.readCount = 0] ELSE r, table)

IncrementReadCount(table, matching) ==
    BagOfAll(LAMBDA r : IF r \in matching THEN [r EXCEPT !.readCount = @ + 1] ELSE r, table)

\* The number of rows of a table.
Count(table) == BagCardinality(table)

----------------------------------------------------------------------------
(* The store as a value, and what a handler leaves behind. *)

Store ==
    [devices |-> devices, entries |-> entries, usage |-> usage,
     dumpRequests |-> dumpRequests, deletionRequests |-> deletionRequests]

\* A handler's outcome: the store it leaves, whether it returned normally
\* (FALSE: it panicked and the request failed), and the rows it wrote back.
Outcome(s, ok, body) == [store |-> s, ok |-> ok, body |-> body]

\* getRequiredQueryParam panics on an absent or empty parameter.
MissingNever(param) == FALSE

Missing(param) == param = ""

\* updateUsageData: find the row of (userId, deviceId); create it with the
\* count, or touch last_used and add the count when it is positive.
updateUsageData(us, userId, deviceId, numEntries) ==
    LET mine(r) == r.userId = userId /\ r.deviceId = deviceId
    IN  IF \A r \in DOMAIN us : ~mine(r)
        THEN Create(us, [userId |-> userId, deviceId |-> deviceId,
                         numEntriesHandled |-> numEntries])
        ELSE IF numEntries > 0
             THEN BagOfAll(LAMBDA r : IF mine(r)
                                      THEN [r EXCEPT !.numEntriesHandled = @ + numEntries]
                                      ELSE r, us)
             ELSE us

\* applyDeletionRequestsToBackend: one DELETE whose condition is the
\* disjunction, over the request's messages, of
\* user_id = request.UserId AND device_id = message.DeviceId AND date = message.Date.
DeletionMatches(request, r) ==
    \E m \in request.messages :
        r.userId = request.userId /\ r.deviceId = m.deviceId /\ r.date = m.date

applyDeletionRequestsOneRow(en, request) ==
    en (-) SetToBag({r \in DOMAIN en : DeletionMatches(request, r)})

applyDeletionRequestsToBackend(en, request) ==
    DeleteWhere(en, {r \in DOMAIN en : DeletionMatches(request, r)})

\* The loop of apiQueryHandler over the pending deletion requests.
ApplyAll(en, requests) ==
    DeleteWhere(en, {r \in DOMAIN en : \E q \in DOMAIN requests : DeletionMatches(q, r)})

\* WHERE user_id = userId, on the devices table.
DevicesOf(devs, userId) == Where(devs, {dev \in DOMAIN devs : dev.userId = userId})

\* WHERE device_id = deviceId, on the entries table.
Mailbox(en, deviceId) == {r \in DOMAIN en : r.deviceId = deviceId}

\* WHERE device_id = deviceId AND read_count < 5.
VisibleThroughLimit(en, deviceId) ==
    {r \in DOMAIN en : r.deviceId = deviceId /\ r.readCount <= QueryReadCountLimit}

Visible(en, deviceId) ==
    {r \in DOMAIN en : r.deviceId = deviceId /\ r.readCount < QueryReadCountLimit}

\* WHERE destination_device_id = deviceId AND user_id = userId.
DeletionsFor(reqs, userId, deviceId) ==
    {q \in DOMAIN reqs : q.destinationDeviceId = deviceId /\ q.userId = userId}

\* WHERE user_id = userId AND requesting_device_id = deviceId.
DumpRequestsOf(reqs, userId, deviceId) ==
    {q \in DOMAIN reqs : q.userId = userId /\ q.requestingDeviceId = deviceId}

\* WHERE user_id = userId AND requesting_device_id != deviceId.
DumpRequestsForAnyDevice(reqs, userId, deviceId) == {q \in DOMAIN reqs : q.userId = userId}

DumpRequestsForPeer(reqs, userId, deviceId) ==
    {q \in DOMAIN reqs : q.userId = userId /\ q.requestingDeviceId # deviceId}

\* The fan-out of one entry: one copy per Device row of the user, with the
\* copy's deviceId rewritten to the row's device.
FanOutToDistinctDevices(en, entry, devs) ==
    en (+) SetToBag({[entry EXCEPT !.deviceId = dev.deviceId] : dev \in DOMAIN devs})

FanOut(en, entry, devs) ==
    en (+) BagOfAll(LAMBDA dev : [entry EXCEPT !.deviceId = dev.deviceId], devs)

\* apiSubmitHandler's loop from the i-th entry of the body on.
RECURSIVE SubmitFromAccepting(_, _, _)
SubmitFromAccepting(batch, i, s) ==
    IF i > Len(batch) THEN Outcome(s, TRUE, EmptyBag)
    ELSE LET entry == batch[i]
             us == updateUsageData(s.usage, entry.userId, entry.deviceId, 1)
             devs == DevicesOf(s.devices, entry.userId)
         IN  SubmitFromAccepting(batch, i + 1,
                                 [s EXCEPT !.usage = us,
                                           !.entries = FanOut(s.entries, entry, devs)])

RECURSIVE SubmitFrom(_, _, _)
SubmitFrom(batch, i, s) ==
    IF i > Len(batch) THEN Outcome(s, TRUE, EmptyBag)
    ELSE LET entry == batch[i]
             us == updateUsageData(s.usage, entry.userId, entry.deviceId, 1)
             devs == DevicesOf(s.devices, entry.userId)
         IN  IF Count(devs) = 0
             THEN Outcome([s EXCEPT !.usage = us], FALSE, EmptyBag)
             ELSE SubmitFrom(batch, i + 1,
                             [s EXCEPT !.usage = us,
                                       !.entries = FanOut(s.entries, entry, devs)])

apiSubmitHandler(batch) == SubmitFrom(batch, 1, Store)

apiBootstrapHandlerMetered(userId, deviceId) ==
    IF Missing(userId) \/ Missing(deviceId) THEN Outcome(Store, FALSE, EmptyBag)
    ELSE Outcome([Store EXCEPT !.usage = updateUsageData(usage, userId, deviceId, 0)],
                 TRUE,
                 IF \E r \in DOMAIN usage : r.userId = userId /\ r.deviceId = deviceId
                 THEN Where(entries, {r \in DOMAIN entries : r.userId = userId})
                 ELSE EmptyBag)

apiBootstrapHandlerGated(userId, deviceId) ==
    IF Missing(userId) \/ Missing(deviceId) THEN Outcome(Store, FALSE, EmptyBag)
    ELSE Outcome([Store EXCEPT !.usage = updateUsageData(usage, userId, deviceId, 0)],
                 TRUE, Where(entries, {r \in DOMAIN entries :
                                         r.userId = userId /\ r.readCount < QueryReadCountLimit}))

apiBootstrapHandler(userId, deviceId) ==
    IF Missing(userId) \/ Missing(deviceId) THEN Outcome(Store, FALSE, EmptyBag)
    ELSE Outcome([Store EXCEPT !.usage = updateUsageData(usage, userId, deviceId, 0)],
                 TRUE, Where(entries, {r \in DOMAIN entries : r.userId = userId}))

apiQueryHandler(userId, deviceId) ==
    IF Missing(userId) \/ Missing(deviceId) THEN Outcome(Store, FALSE, EmptyBag)
    ELSE LET counted == IncrementReadCount(entries, Mailbox(entries, deviceId))
             pending == Where(deletionRequests,
                              DeletionsFor(deletionRequests, userId, deviceId))
             kept == ApplyAll(counted, pending)
         IN  Outcome([Store EXCEPT !.usage = updateUsageData(usage, userId, deviceId, 0),
                                   !.entries = kept],
                     TRUE, Where(kept, Visible(kept, deviceId)))

\* The count apiRegisterHandler takes before it inserts the Device row.
ExistingDevicesCountAfterInsert(userId) == Count(DevicesOf(devices, userId)) + 1

ExistingDevicesCount(userId) == Count(DevicesOf(devices, userId))

apiRegisterHandlerOnce(userId, deviceId) ==
    IF Missing(userId) \/ Missing(deviceId) \/ BagIn(MkDevice(userId, deviceId), devices)
    THEN Outcome(Store, FALSE, EmptyBag)
    ELSE LET existingDevicesCount == ExistingDevicesCount(userId)
         IN  Outcome([Store EXCEPT
                        !.devices = Create(devices, MkDevice(userId, deviceId)),
                        !.dumpRequests = IF existingDevicesCount > 0
                                         THEN Create(dumpRequests,
                                                     MkDumpRequest(userId, deviceId))
                                         ELSE dumpRequests,
                        !.usage = updateUsageData(usage, userId, deviceId, 0)],
                     TRUE, EmptyBag)

apiRegisterHandler(userId, deviceId) ==
    IF Missing(userId) \/ Missing(deviceId) THEN Outcome(Store, FALSE, EmptyBag)
    ELSE LET existingDevicesCount == ExistingDevicesCount(userId)
         IN  Outcome([Store EXCEPT
                        !.devices = Create(devices, MkDevice(userId, deviceId)),
                        !.dumpRequests = IF existingDevicesCount > 0
                                         THEN Create(dumpRequests,
                                                     MkDumpRequest(userId, deviceId))
                                         ELSE dumpRequests,
                        !.usage = updateUsageData(usage, userId, deviceId, 0)],
                     TRUE, EmptyBag)

apiGetPendingDumpRequestsHandler(userId, deviceId) ==
    IF Missing(userId) \/ Missing(deviceId) THEN Outcome(Store, FALSE, EmptyBag)
    ELSE Outcome(Store, TRUE,
                 Where(dumpRequests, DumpRequestsForPeer(dumpRequests, userId, deviceId)))

\* The entries of a dump, addressed to the requesting device's mailbox.
Dumped(batch, indices, requestingDeviceId) ==
    BagOfAll(LAMBDA i : [batch[i] EXCEPT !.deviceId = requestingDeviceId], SetToBag(indices))

\* The transaction of apiSubmitDumpHandler: every entry is inserted into the
\* requesting device's mailbox, or none is when an entry names another user.
DumpWithoutRollback(en, userId, requestingDeviceId, batch) ==
    LET bad == {i \in DOMAIN batch : batch[i].userId # userId}
    IN  IF bad = {}
        THEN [ok |-> TRUE, entries |-> en (+) Dumped(batch, DOMAIN batch, requestingDeviceId)]
        ELSE [ok |-> FALSE,
              entries |-> en (+) Dumped(batch, {i \in DOMAIN batch : \A j \in bad : i < j},
                                        requestingDeviceId)]

DumpTransaction(en, userId, requestingDeviceId, batch) ==
    IF \E i \in DOMAIN batch : batch[i].userId # userId
    THEN [ok |-> FALSE, entries |-> en]
    ELSE [ok |-> TRUE, entries |-> en (+) Dumped(batch, DOMAIN batch, requestingDeviceId)]

\* The DELETE that clears the dump request once the dump is stored.
KeepDumpRequests(reqs, userId, requestingDeviceId) == reqs

ClearDumpRequestsOfUser(reqs, userId, requestingDeviceId) ==
    DeleteWhere(reqs, {q \in DOMAIN reqs : q.userId = userId})

ClearDumpRequests(reqs, userId, requestingDeviceId) ==
    DeleteWhere(reqs, DumpRequestsOf(reqs, userId, requestingDeviceId))

apiSubmitDumpHandlerCountingFirst(userId, srcDeviceId, requestingDeviceId, batch) ==
    IF Missing(userId) \/ Missing(srcDeviceId) \/ Missing(requestingDeviceId)
    THEN Outcome(Store, FALSE, EmptyBag)
    ELSE LET tx == DumpTransaction(entries, userId, requestingDeviceId, batch)
             counted == updateUsageData(usage, userId, srcDeviceId, Len(batch))
         IN  IF ~tx.ok
             THEN Outcome([Store EXCEPT !.entries = tx.entries, !.usage = counted],
                          FALSE, EmptyBag)
             ELSE Outcome([Store EXCEPT
                             !.entries = tx.entries,
                             !.dumpRequests =
                                 ClearDumpRequests(dumpRequests, userId, requestingDeviceId),
                             !.usage = counted],
                          TRUE, EmptyBag)

apiSubmitDumpHandler(userId, srcDeviceId, requestingDeviceId, batch) ==
    IF Missing(userId) \/ Missing(srcDeviceId) \/ Missing(requestingDeviceId)
    THEN Outcome(Store, FALSE, EmptyBag)
    ELSE LET tx == DumpTransaction(entries, userId, requestingDeviceId, batch)
         IN  IF ~tx.ok THEN Outcome([Store EXCEPT !.entries = tx.entries], FALSE, EmptyBag)
             ELSE Outcome([Store EXCEPT
                             !.entries = tx.entries,
                             !.dumpRequests =
                                 ClearDumpRequests(dumpRequests, userId, requestingDeviceId),
                             !.usage = updateUsageData(usage, userId, srcDeviceId, Len(batch))],
                          TRUE, EmptyBag)

getDeletionRequestsHandlerCountingAll(userId, deviceId) ==
    IF Missing(userId) \/ Missing(deviceId) THEN Outcome(Store, FALSE, EmptyBag)
    ELSE LET counted == IncrementReadCount(deletionRequests,
                            {q \in DOMAIN deletionRequests : q.userId = userId})
         IN  Outcome([Store EXCEPT !.deletionRequests = counted], TRUE,
                     Where(counted, DeletionsFor(counted, userId, deviceId)))

getDeletionRequestsHandler(userId, deviceId) ==
    IF Missing(userId) \/ Missing(deviceId) THEN Outcome(Store, FALSE, EmptyBag)
    ELSE LET counted == IncrementReadCount(deletionRequests,
                            DeletionsFor(deletionRequests, userId, deviceId))
         IN  Outcome([Store EXCEPT !.deletionRequests = counted], TRUE,
                     Where(counted, DeletionsFor(counted, userId, deviceId)))

addDeletionRequestHandlerKeepingReadCount(request) ==
    LET devs == DevicesOf(devices, request.userId)
        stored == BagOfAll(LAMBDA dev : [request EXCEPT !.destinationDeviceId = dev.deviceId],
                           devs)
    IN  IF Count(devs) = 0 THEN Outcome(Store, FALSE, EmptyBag)
        ELSE Outcome([Store EXCEPT
                        !.deletionRequests = deletionRequests (+) stored,
                        !.entries = applyDeletionRequestsToBackend(entries, request)],
                     TRUE, EmptyBag)

addDeletionRequestHandler(request) ==
    LET devs == DevicesOf(devices, request.userId)
        stored == BagOfAll(LAMBDA dev : [request EXCEPT !.readCount = 0,
                                                        !.destinationDeviceId = dev.deviceId],
                           devs)
    IN  IF Count(devs) = 0 THEN Outcome(Store, FALSE, EmptyBag)
        ELSE Outcome([Store EXCEPT
                        !.deletionRequests = deletionRequests (+) stored,
                        !.entries = applyDeletionRequestsToBackend(entries, request)],
                     TRUE, EmptyBag)

wipeDbHandlerAllTables ==
    Outcome([Store EXCEPT !.entries = EmptyBag, !.devices = EmptyBag], TRUE, EmptyBag)

wipeDbHandler == Outcome([Store EXCEPT !.entries = EmptyBag], TRUE, EmptyBag)

\* WHERE read_count > 10, on the entries table.
ExpiredEntriesOnceRead(en) == {r \in DOMAIN en : r.readCount > 0}

ExpiredEntriesFromThreshold(en) == {r \in DOMAIN en : r.readCount >= CleanEntriesReadCount}

ExpiredEntries(en) == {r \in DOMAIN en : r.readCount > CleanEntriesReadCount}

\* WHERE read_count > 100, on the deletion requests table.
ExpiredDeletionsAtEntryThreshold(reqs) ==
    {q \in DOMAIN reqs : q.readCount > CleanEntriesReadCount}

ExpiredDeletions(reqs) == {q \in DOMAIN reqs : q.readCount > CleanDeletionsReadCount}

cleanDatabase(s) ==
    [s EXCEPT !.entries = DeleteWhere(s.entries, ExpiredEntries(s.entries)),
              !.deletionRequests = DeleteWhere(s.deletionRequests,
                                               ExpiredDeletions(s.deletionRequests))]

----------------------------------------------------------------------------
(* The handlers of the first server (the e* endpoints), which work on the  *)
(* same tables: no parameter is required, a query applies no deletion      *)
(* request, and usage_data has no entry counter.                           *)

apiEQueryHandler(userId, deviceId) ==
    LET counted == IncrementReadCount(entries, Mailbox(entries, deviceId))
    IN  Outcome([Store EXCEPT !.usage = updateUsageData(usage, userId, deviceId, 0),
                              !.entries = counted],
                TRUE, Where(counted, Visible(counted, deviceId)))

apiEBootstrapHandler(userId, deviceId) ==
    Outcome([Store EXCEPT !.usage = updateUsageData(usage, userId, deviceId, 0)],
            TRUE, Where(entries, {r \in DOMAIN entries : r.userId = userId}))

----------------------------------------------------------------------------
(* The release resolver.  A version tag is the list of the parts that      *)
(* strings.Split(version, ".") yields.  A part is text that strconv.Atoi   *)
(* rejects, or a decimal numeral: its value and the leading zeros it is    *)
(* written with (Atoi drops them, Itoa never writes them).                 *)

Text(s) == [numeric |-> FALSE, text |-> s, pad |-> 0, n |-> 0]
Numeral(pad, n) == [numeric |-> TRUE, text |-> "", pad |-> pad, n |-> n]

Atoi(part) == [ok |-> part.numeric, value |-> part.n]
Itoa(n) == Numeral(0, n)

Tag(prefix, n) == <<Text(prefix), Itoa(n)>>
UNKNOWN == <<Text("UNKNOWN")>>

decrementVersionFloored(version) ==
    IF version = UNKNOWN THEN [ok |-> FALSE, version |-> <<>>]
    ELSE IF Len(version) # 2 THEN [ok |-> FALSE, version |-> <<>>]
    ELSE LET versionNumber == Atoi(version[2])
         IN  IF ~versionNumber.ok \/ versionNumber.value <= 0
             THEN [ok |-> FALSE, version |-> <<>>]
             ELSE [ok |-> TRUE, version |-> <<version[1], Itoa(versionNumber.value - 1)>>]

decrementVersion(version) ==
    IF version = UNKNOWN THEN [ok |-> FALSE, version |-> <<>>]
    ELSE IF Len(version) # 2 THEN [ok |-> FALSE, version |-> <<>>]
    ELSE LET versionNumber == Atoi(version[2])
         IN  IF ~versionNumber.ok THEN [ok |-> FALSE, version |-> <<>>]
             ELSE [ok |-> TRUE, version |-> <<version[1], Itoa(versionNumber.value - 1)>>]

DecrementAttempts == 5

\* The loop of decrementVersionIfInvalid from its i-th round on; published
\* is the set of tags for which assertValidUpdate finds every artifact.
RECURSIVE DecrementFrom(_, _, _, _)
DecrementFrom(version, i, initialVersion, published) ==
    IF i >= DecrementAttempts THEN initialVersion
    ELSE IF version \in published THEN version
    ELSE LET next == decrementVersion(version)
         IN  IF ~next.ok THEN initialVersion
             ELSE DecrementFrom(next.version, i + 1, initialVersion, published)

decrementVersionOnceIfInvalid(initialVersion, published) ==
    IF initialVersion \in published THEN initialVersion
    ELSE LET next == decrementVersion(initialVersion)
         IN  IF next.ok THEN next.version ELSE initialVersion

decrementVersionIfInvalid(initialVersion, published) ==
    DecrementFrom(initialVersion, 0, initialVersion, published)

\* What the release feed answers.
FeedUnreachable == [kind |-> "unreachable", status |-> 0, name |-> <<>>]
FeedRateLimited == [kind |-> "rate-limited", status |-> 403, name |-> <<>>]
FeedStatus(code) == [kind |-> "status", status |-> code, name |-> <<>>]
FeedUnparseable == [kind |-> "unparseable", status |-> 200, name |-> <<>>]
FeedLatest(tag) == [kind |-> "latest", status |-> 200, name |-> tag]

\* updateReleaseVersion: the version it leaves and whether it returned an error.
updateReleaseVersionStrict(current, feed, published) ==
    IF feed.kind = "unreachable" THEN [version |-> current, err |-> TRUE]
    ELSE IF feed.status # 200 THEN [version |-> current, err |-> TRUE]
    ELSE IF feed.kind = "unparseable" THEN [version |-> current, err |-> TRUE]
    ELSE [version |-> decrementVersionIfInvalid(feed.name, published), err |-> FALSE]

updateReleaseVersion(current, feed, published) ==
    IF feed.kind = "unreachable" THEN [version |-> current, err |-> TRUE]
    ELSE IF feed.status = 403 /\ feed.kind = "rate-limited"
         THEN [version |-> current, err |-> FALSE]
    ELSE IF feed.status # 200 THEN [version |-> current, err |-> TRUE]
    ELSE IF feed.kind = "unparseable" THEN [version |-> current, err |-> TRUE]
    ELSE [version |-> decrementVersionIfInvalid(feed.name, published), err |-> FALSE]

----------------------------------------------------------------------------
(* Serving one request: the handler runs to its end (or to its panic) and  *)
(* the request and its response are recorded in last.                      *)

NoBatch == <<>>
NoRequest == MkDeletionRequest("", "", {}, 0)

Request(op, userId, deviceId, requestingDeviceId, batch, request) ==
    [op |-> op, userId |-> userId, deviceId |-> deviceId,
     requestingDeviceId |-> requestingDeviceId, batch |-> batch, request |-> request]

Serve(req, out) ==
    /\ devices' = out.store.devices
    /\ entries' = out.store.entries
    /\ usage' = out.store.usage
    /\ dumpRequests' = out.store.dumpRequests
    /\ deletionRequests' = out.store.deletionRequests
    /\ last' = [req |-> req, ok |-> out.ok, body |-> out.body]
    /\ UNCHANGED procs

Handle(req, out) == Serve(req, out) /\ UNCHANGED <<ReleaseVersion, upstream>>

Register(u, d) ==
    Handle(Request("register", u, d, "", NoBatch, NoRequest), apiRegisterHandler(u, d))

Submit(batch) ==
    Handle(Request("submit", "", "", "", batch, NoRequest), apiSubmitHandler(batch))

Bootstrap(u, d) ==
    Handle(Request("bootstrap", u, d, "", NoBatch, NoRequest), apiBootstrapHandler(u, d))

Query(u, d) ==
    Handle(Request("query", u, d, "", NoBatch, NoRequest), apiQueryHandler(u, d))

GetPendingDumpRequests(u, d) ==
    Handle(Request("get-dump-requests", u, d, "", NoBatch, NoRequest),
          apiGetPendingDumpRequestsHandler(u, d))

SubmitDump(u, src, rd, batch) ==
    Handle(Request("submit-dump", u, src, rd, batch, NoRequest),
          apiSubmitDumpHandler(u, src, rd, batch))

GetPendingDeletionRequests(u, d) ==
    Handle(Request("get-deletion-requests", u, d, "", NoBatch, NoRequest),
          getDeletionRequestsHandler(u, d))

AddDeletionRequest(request) ==
    Handle(Request("add-deletion-request", "", "", "", NoBatch, request),
          addDeletionRequestHandler(request))

WipeDb ==
    Handle(Request("wipe-db", "", "", "", NoBatch, NoRequest), wipeDbHandler)

EQuery(u, d) ==
    Handle(Request("equery", u, d, "", NoBatch, NoRequest), apiEQueryHandler(u, d))

EBootstrap(u, d) ==
    Handle(Request("ebootstrap", u, d, "", NoBatch, NoRequest), apiEBootstrapHandler(u, d))

\* apiDownloadHandler: the update manifest of the resolved version; every URL
\* of the manifest is built from the version alone.
buildUpdateInfo(version) == [version |-> version]

apiDownloadHandler == Outcome(Store, TRUE, SetToBag({buildUpdateInfo(ReleaseVersion)}))

Download ==
    Handle(Request("download", "", "", "", NoBatch, NoRequest), apiDownloadHandler)

\* trigger-cron, and one cycle of runBackgroundJobs: cron resolves the
\* release version, then cleans the database, and returns no error.
cronFailingFast(feed, published) ==
    LET resolved == updateReleaseVersion(ReleaseVersion, feed, published)
    IN  IF resolved.err THEN [store |-> Store, version |-> resolved.version, err |-> TRUE]
        ELSE [store |-> cleanDatabase(Store), version |-> resolved.version, err |-> FALSE]

cron(feed, published) ==
    [store |-> cleanDatabase(Store),
     version |-> updateReleaseVersion(ReleaseVersion, feed, published).version,
     err |-> FALSE]

Cron(feed, published) ==
    /\ Serve(Request("trigger-cron", "", "", "", NoBatch, NoRequest),
             Outcome(cron(feed, published).store, ~cron(feed, published).err, EmptyBag))
    /\ ReleaseVersion' = cron(feed, published).version
    /\ upstream' = [feed |-> feed, published |-> published]

----------------------------------------------------------------------------
(* What every specification starts from and how it is bounded.             *)

Init ==
    /\ devices = EmptyBag
    /\ entries = EmptyBag
    /\ usage = EmptyBag
    /\ dumpRequests = EmptyBag
    /\ deletionRequests = EmptyBag
    /\ ReleaseVersion = UNKNOWN
    /\ upstream = [feed |-> FeedUnreachable, published |-> {}]
    /\ last = [req |-> Request("none", "", "", "", NoBatch, NoRequest),
               ok |-> TRUE, body |-> EmptyBag]
    /\ procs = EmptyBag

\* The store holds at most so many rows and its counters have not passed
\* their caps.
LimitedTo(maxDevices, maxEntries, maxReadCount, maxHandled, maxDumps, maxDeletions, maxDeletionReadCount) ==
    /\ Count(devices) <= maxDevices
    /\ Count(entries) <= maxEntries
    /\ \A r \in DOMAIN entries : r.readCount <= maxReadCount
    /\ \A r \in DOMAIN usage : r.numEntriesHandled <= maxHandled
    /\ Count(dumpRequests) <= maxDumps
    /\ Count(deletionRequests) <= maxDeletions
    /\ \A q \in DOMAIN deletionRequests : q.readCount <= maxDeletionReadCount

----------------------------------------------------------------------------
(* Spec: registration, submission and delivery among the devices of one    *)
(* user, requests served one at a time.                                    *)

MaxDevices == 3
MaxEntries == 3
MaxReadCount == 2
MaxHandled == 1

Bounds ==
    LimitedTo(MaxDevices, MaxEntries, MaxReadCount, MaxHandled, MaxDevices, 0, 0)

Users == {"u1"}
DeviceIds == {"A", "B"}

Entries == {MkEntry(u, d, 1, 0) : u \in Users, d \in DeviceIds}

Batches == {<<e>> : e \in Entries}

Next ==
    \/ \E u \in Users, d \in DeviceIds : Register(u, d) /\ Bounds'
    \/ \E batch \in Batches : Submit(batch) /\ Bounds'
    \/ \E u \in Users, d \in DeviceIds : Bootstrap(u, d) /\ Bounds'
    \/ \E u \in Users, d \in DeviceIds : Query(u, d) /\ Bounds'

Spec == Init /\ [][Next]_vars

----------------------------------------------------------------------------
(* Claims checked under Spec.                                              *)

\* The request that the step just taken served.
Served(op) == last'.req.op = op /\ last'.ok

\* How often an entry occurs in a batch.
Occurrences(batch, e) == Cardinality({i \in DOMAIN batch : batch[i] = e})

\* The copy of an entry that sits in a device's mailbox.
CopyFor(e, d) == [e EXCEPT !.deviceId = d]

\* A query step answers with every row of the polled mailbox that is inside
\* the redelivery window, as often as the mailbox holds it, and nothing else.
QueryReturnsWindow ==
    Served("query") =>
        LET d == last'.req.deviceId
        IN  last'.body = Where(entries',
            {r \in DOMAIN entries' : r.deviceId = d
                                            /\ r.readCount < QueryReadCountLimit})

C10_DumpRequestIffNotFirst ==
    [][Served("register") =>
          LET u == last'.req.userId
              d == last'.req.deviceId
          IN  /\ devices' = devices (+) SetToBag({MkDevice(u, d)})
              /\ dumpRequests' =
                    IF \E dev \in DOMAIN devices : dev.userId = u
                    THEN dumpRequests (+) SetToBag({MkDumpRequest(u, d)})
                    ELSE dumpRequests]_vars

\* A second device has just registered and got its DumpRequest, while the
\* first device of the user has none.
C10_Witness ==
    /\ last.req.op = "register" /\ last.ok
    /\ BagIn(MkDumpRequest(last.req.userId, last.req.deviceId), dumpRequests)
    /\ \E dev \in DOMAIN devices :
          /\ dev.userId = last.req.userId
          /\ ~BagIn(MkDumpRequest(dev.userId, dev.deviceId), dumpRequests)

----------------------------------------------------------------------------
(* SpecPoll: one user's devices poll a mailbox past the redelivery window  *)
(* and past the janitor's threshold; the feed is unreachable, so cron      *)
(* only cleans the database.                                               *)

PollMaxReadCount == 11

PollBounds ==
    /\ \A r \in DOMAIN entries : r.readCount <= PollMaxReadCount
    /\ \A r \in DOMAIN usage : r.numEntriesHandled <= MaxHandled

\* Each device registers once, and an entry is submitted while the store
\* holds no copy of it.
Unregistered(u, d) == ~BagIn(MkDevice(u, d), devices)
Unsent(batch) ==
    \A i \in DOMAIN batch, r \in DOMAIN entries : r.encryptedData # batch[i].encryptedData

PollBatches == {<<MkEntry("u1", "A", 1, 0)>>}

NextPoll ==
    \/ \E u \in Users, d \in DeviceIds : Unregistered(u, d) /\ Register(u, d) /\ PollBounds'
    \/ \E batch \in PollBatches : Unsent(batch) /\ Submit(batch) /\ PollBounds'
    \/ \E u \in Users, d \in DeviceIds : Query(u, d) /\ PollBounds'
    \/ \E u \in Users, d \in DeviceIds : EQuery(u, d) /\ PollBounds'
    \/ \E u \in Users, d \in DeviceIds : Bootstrap(u, d) /\ PollBounds'
    \/ \E u \in Users, d \in DeviceIds : EBootstrap(u, d) /\ PollBounds'
    \/ Cron(FeedUnreachable, {}) /\ PollBounds'

SpecPoll == Init /\ [][NextPoll]_vars

\* The row a poll of its mailbox turns a row into.
Polled(r) == [r EXCEPT !.readCount = @ + 1]

IsQuery == last'.req.op \in {"query", "equery"} /\ last'.ok
IsBootstrap == last'.req.op \in {"bootstrap", "ebootstrap"} /\ last'.ok

\* C2: a poll by the owning device brings the readCount of every row of the
\* mailbox up by exactly one and no other request changes it, so a row
\* created with readCount 0 carries the number of polls since its creation;
\* the poll that brings it to 1, 2, 3 or 4 returns the row and a poll that
\* brings it to 5 or more does not; Bootstrap returns every row of the user
\* whatever its readCount, and only the janitor removes a row, once its
\* readCount has passed 10.
C2_BoundedRedelivery ==
    [][/\ IsQuery =>
            \A r \in DOMAIN entries :
                IF r.deviceId = last'.req.deviceId
                THEN /\ CopiesIn(Polled(r), entries') = CopiesIn(r, entries)
                     /\ CopiesIn(Polled(r), last'.body) =
                            IF Polled(r).readCount \in 1..4 THEN CopiesIn(r, entries)
                            ELSE 0
                ELSE CopiesIn(r, entries') = CopiesIn(r, entries)
       /\ ~IsQuery =>
            \A r \in DOMAIN entries :
                \/ CopiesIn(r, entries') >= CopiesIn(r, entries)
                \/ /\ last'.req.op = "trigger-cron"
                   /\ r.readCount > CleanEntriesReadCount
       /\ IsBootstrap =>
            \A r \in DOMAIN entries :
                r.userId = last'.req.userId => CopiesIn(r, last'.body) = CopiesIn(r, entries)
      ]_vars

\* The fifth poll since a row's creation has just been answered without
\* the row, which is still stored.
C2_Witness ==
    /\ last.req.op \in {"query", "equery"} /\ last.ok
    /\ \E r \in DOMAIN entries :
          /\ r.deviceId = last.req.deviceId
          /\ r.readCount = 5
          /\ ~BagIn(r, last.body)

----------------------------------------------------------------------------
(* SpecDel: an entry fanned out to the three devices of one user, and a    *)
(* deletion request that names it.                                         *)

MaxDeletionReadCount == 2

DelDeviceIds == {"A", "B", "C"}

DelBatches == {<<MkEntry("u1", "A", 1, 0)>>}

\* The request a client sends to delete the entry device A ran at time 1.
DelRequests == {MkDeletionRequest("u1", "", {MkMessage("A", 1)}, rc) : rc \in {0, 7}}

\* A deletion request is sent while none with its messages is stored.
Unrequested(request) ==
    \A q \in DOMAIN deletionRequests : q.messages # request.messages

DelBounds ==
    /\ \A r \in DOMAIN entries : r.readCount <= MaxReadCount
    /\ \A r \in DOMAIN usage : r.numEntriesHandled <= MaxHandled
    /\ \A q \in DOMAIN deletionRequests : q.readCount <= MaxDeletionReadCount

NextDel ==
    \/ \E u \in Users, d \in DelDeviceIds : Unregistered(u, d) /\ Register(u, d) /\ DelBounds'
    \/ \E batch \in DelBatches : Unsent(batch) /\ Submit(batch) /\ DelBounds'
    \/ \E request \in DelRequests :
          Unrequested(request) /\ AddDeletionRequest(request) /\ DelBounds'
    \/ \E u \in Users, d \in DelDeviceIds : Query(u, d) /\ DelBounds'
    \/ \E u \in Users, d \in DelDeviceIds : GetPendingDeletionRequests(u, d) /\ DelBounds'

SpecDel == Init /\ [][NextDel]_vars

\* The rows that are copies of the entry a message names: the entry that
\* device message.deviceId ran at time message.date.
CopiesOfNamed(userId, m) ==
    {r \in DOMAIN entries : r.userId = userId /\ r.encryptedData = <<m.deviceId, m.date>>}

\* C3: once an AddDeletionRequest has been served, no mailbox of the user
\* holds a copy of an entry the request names.
C3_DeletionRemovesEveryCopy ==
    (last.req.op = "add-deletion-request" /\ last.ok) =>
        \A m \in last.req.request.messages :
            CopiesOfNamed(last.req.request.userId, m) = {}

\* C22: the response of a Query contains no entry named by a deletion
\* request that was pending for the polling device when the Query arrived.
C22_QueryOmitsDeletedEntries ==
    [][Served("query") =>
          \A r \in DOMAIN last'.body :
              \A q \in DeletionsFor(deletionRequests, last'.req.userId, last'.req.deviceId) :
                  \A m \in q.messages :
                      ~(r.userId = q.userId /\ r.encryptedData = <<m.deviceId, m.date>>)]_vars

\* C25: a Query neither deletes a row of a mailbox other than the polling
\* device's nor changes its readCount.
C25_QueryTouchesOwnMailboxOnly ==
    [][Served("query") =>
          \A r \in DOMAIN entries :
              r.deviceId # last'.req.deviceId => CopiesIn(r, entries') = CopiesIn(r, entries)]_vars

----------------------------------------------------------------------------
(* SpecFeed: the deletion feed of two devices, polled past the janitor's   *)
(* threshold.                                                              *)

FeedMaxReadCount == 102

FeedBounds == \A q \in DOMAIN deletionRequests : q.readCount <= FeedMaxReadCount

NextFeed ==
    \/ \E u \in Users, d \in DeviceIds : Unregistered(u, d) /\ Register(u, d) /\ FeedBounds'
    \/ \E request \in DelRequests :
          Unrequested(request) /\ AddDeletionRequest(request) /\ FeedBounds'
    \/ \E u \in Users, d \in DeviceIds : GetPendingDeletionRequests(u, d) /\ FeedBounds'
    \/ Cron(FeedUnreachable, {}) /\ FeedBounds'

SpecFeed == Init /\ [][NextFeed]_vars

\* The row AddDeletionRequest stores for a device.
StoredFor(request, d) == [request EXCEPT !.readCount = 0, !.destinationDeviceId = d]

\* C4: AddDeletionRequest stores a copy of the request, with readCount 0, for
\* every device registered to the user; a poll of get-deletion-requests
\* brings the readCount of each of the polling device's copies up by exactly
\* one and returns every one of them with the new count; and no request
\* removes a copy whose readCount has not passed 100.  So a device observes
\* the request in each of its polls at least until its own copy's readCount
\* exceeds 100.
C4_DeletionFeed ==
    [][/\ Served("add-deletion-request") =>
            \A dev \in DOMAIN devices :
                dev.userId = last'.req.request.userId =>
                    CopiesIn(StoredFor(last'.req.request, dev.deviceId), deletionRequests')
                        = CopiesIn(StoredFor(last'.req.request, dev.deviceId), deletionRequests)
                            + CopiesIn(dev, devices)
       /\ Served("get-deletion-requests") =>
            \A q \in DOMAIN deletionRequests :
                IF q.userId = last'.req.userId /\ q.destinationDeviceId = last'.req.deviceId
                THEN /\ CopiesIn(Polled(q), deletionRequests') = CopiesIn(q, deletionRequests)
                     /\ CopiesIn(Polled(q), last'.body) = CopiesIn(q, deletionRequests)
                ELSE CopiesIn(q, deletionRequests') = CopiesIn(q, deletionRequests)
       /\ ~Served("get-deletion-requests") =>
            \A q \in DOMAIN deletionRequests :
                \/ CopiesIn(q, deletionRequests') >= CopiesIn(q, deletionRequests)
                \/ /\ last'.req.op = "trigger-cron"
                   /\ q.readCount > CleanDeletionsReadCount
      ]_vars

\* A device has just polled for the 101st time and still got the request,
\* while the copy of the other device has not been read yet.
C4_Witness ==
    /\ last.req.op = "get-deletion-requests" /\ last.ok
    /\ \E q \in DOMAIN last.body : q.readCount = CleanDeletionsReadCount + 1
    /\ \E q \in DOMAIN deletionRequests :
          q.destinationDeviceId # last.req.deviceId /\ q.readCount = 0

----------------------------------------------------------------------------
(* SpecDump: a second device registers and its peer dumps to it; a dump    *)
(* may carry entries of another user.                                      *)

DumpEntries == {MkEntry(u, "A", 1, 0) : u \in {"u1", "u2"}}

DumpBatches == {<<e>> : e \in DumpEntries} \cup {<<e, f>> : e \in DumpEntries, f \in DumpEntries}

DumpBounds ==
    /\ Count(devices) <= MaxDevices
    /\ Count(entries) <= MaxEntries

NextDump ==
    \/ \E u \in Users, d \in DeviceIds : Register(u, d) /\ DumpBounds'
    \/ \E u \in Users, d \in DeviceIds : GetPendingDumpRequests(u, d) /\ DumpBounds'
    \/ \E u \in Users, src \in DeviceIds, rd \in DeviceIds, batch \in DumpBatches :
          SubmitDump(u, src, rd, batch) /\ DumpBounds'

SpecDump == Init /\ [][NextDump]_vars

\* C5: a SubmitDump whose batch holds, at any position, an entry of a user
\* other than the user_id parameter fails and leaves the Entry Store, and
\* every other table, as it was.
C5_DumpAllOrNothing ==
    [][(/\ last'.req.op = "submit-dump"
        /\ \E i \in DOMAIN last'.req.batch : last'.req.batch[i].userId # last'.req.userId)
          => ~last'.ok /\ entries' = entries /\ UNCHANGED tables]_vars

\* A dump whose second entry belongs to another user has just been refused.
C5_Witness ==
    /\ last.req.op = "submit-dump" /\ ~last.ok
    /\ Len(last.req.batch) = 2
    /\ last.req.batch[1].userId = last.req.userId
    /\ last.req.batch[2].userId # last.req.userId

\* C6: a successful SubmitDump leaves no DumpRequest row for its (userId,
\* requestingDeviceId); only a Register of that device for that user brings
\* one back; and GetPendingDumpRequests returns stored rows only, so it
\* returns none for the pair in between.
C6_DumpClearsRequest ==
    [][/\ Served("submit-dump") =>
            DumpRequestsOf(dumpRequests', last'.req.userId, last'.req.requestingDeviceId) = {}
       /\ \A q \in DOMAIN dumpRequests' :
            ~BagIn(q, dumpRequests) =>
                /\ Served("register")
                /\ q = MkDumpRequest(last'.req.userId, last'.req.deviceId)
       /\ Served("get-dump-requests") =>
            \A q \in DOMAIN last'.body : BagIn(q, dumpRequests')
      ]_vars

\* A peer polls after the dump to the second device of its user went through
\* and finds no request.
C6_Witness ==
    /\ last.req.op = "get-dump-requests" /\ last.ok
    /\ last.body = EmptyBag
    /\ \E dev \in DOMAIN devices :
          dev.userId = last.req.userId /\ dev.deviceId # last.req.deviceId
    /\ BagIn(MkDevice(last.req.userId, last.req.deviceId), devices)
    /\ \E r \in DOMAIN entries : r.deviceId # last.req.deviceId

\* C7: a SubmitDump served right after a successful SubmitDump for the same
\* (userId, requestingDeviceId), which cleared the DumpRequest rows of the
\* pair, finds no DumpRequest row and adds nothing to the Entry Store.
C7_NoDumpWithoutRequest ==
    [][(/\ last.req.op = "submit-dump" /\ last.ok
        /\ Served("submit-dump")
        /\ last'.req.userId = last.req.userId
        /\ last'.req.requestingDeviceId = last.req.requestingDeviceId)
          => /\ DumpRequestsOf(dumpRequests, last'.req.userId,
                               last'.req.requestingDeviceId) = {}
             /\ entries' = entries]_vars

----------------------------------------------------------------------------
(* Requests in flight.  net/http serves every request in a goroutine of    *)
(* its own, so the statements of handlers interleave; each statement       *)
(* against GLOBAL_DB is one step.  procs is the bag of the requests that   *)
(* have been accepted, each with its position in its handler, its local    *)
(* variables and, once it has returned, its response.                      *)

Proc(req) ==
    [req |-> req, pc |-> 1, done |-> FALSE, ok |-> TRUE, body |-> EmptyBag,
     existingDevicesCount |-> -1, found |-> EmptyBag, rowsAffected |-> 0]

Accept(req) ==
    /\ procs' = procs (+) SetToBag({Proc(req)})
    /\ UNCHANGED <<tables, ReleaseVersion, last, upstream>>

\* Process p makes a step that leaves the store as s and itself as q.
Run(p, q, s) ==
    /\ procs' = (procs (-) SetToBag({p})) (+) SetToBag({q})
    /\ devices' = s.devices
    /\ entries' = s.entries
    /\ usage' = s.usage
    /\ dumpRequests' = s.dumpRequests
    /\ deletionRequests' = s.deletionRequests
    /\ last' = IF q.done THEN [req |-> q.req, ok |-> q.ok, body |-> q.body] ELSE last
    /\ UNCHANGED <<ReleaseVersion, upstream>>

\* The handler moves on to its next statement, or returns after its last.
Advance(p, steps) ==
    IF p.pc = Len(steps) THEN [p EXCEPT !.done = TRUE] ELSE [p EXCEPT !.pc = @ + 1]

Panic(p) == [p EXCEPT !.done = TRUE, !.ok = FALSE, !.body = EmptyBag]

\* The statements of apiQueryHandler, in its order.
QueryStepsReadFirst == <<"read", "usage", "increment", "apply-deletions">>

QuerySteps == <<"usage", "increment", "apply-deletions", "read">>

QueryStep(p) ==
    /\ p.req.op = "query" /\ ~p.done
    /\ LET u == p.req.userId
           d == p.req.deviceId
           step == QuerySteps[p.pc]
       IN  IF Missing(u) \/ Missing(d) THEN Run(p, Panic(p), Store)
           ELSE Run(p,
                    Advance(CASE step = "read" ->
                                   [p EXCEPT !.body = Where(entries, Visible(entries, d))]
                              [] step = "increment" ->
                                   [p EXCEPT !.rowsAffected =
                                       Count(Where(entries, Mailbox(entries, d)))]
                              [] OTHER -> p, QuerySteps),
                    CASE step = "usage" ->
                           [Store EXCEPT !.usage = updateUsageData(usage, u, d, 0)]
                      [] step = "increment" ->
                           [Store EXCEPT !.entries =
                               IncrementReadCount(entries, Mailbox(entries, d))]
                      [] step = "apply-deletions" ->
                           [Store EXCEPT !.entries =
                               ApplyAll(entries, Where(deletionRequests,
                                   DeletionsFor(deletionRequests, u, d)))]
                      [] step = "read" -> Store)

\* The statements of apiRegisterHandler, in its order.
RegisterSteps == <<"count", "create-device", "create-dump-request", "usage">>

RegisterStep(p) ==
    /\ p.req.op = "register" /\ ~p.done
    /\ LET u == p.req.userId
           d == p.req.deviceId
           step == RegisterSteps[p.pc]
       IN  IF Missing(u) \/ Missing(d) THEN Run(p, Panic(p), Store)
           ELSE Run(p,
                    Advance(IF step = "count"
                            THEN [p EXCEPT !.existingDevicesCount = ExistingDevicesCount(u)]
                            ELSE p, RegisterSteps),
                    CASE step = "count" -> Store
                      [] step = "create-device" ->
                           [Store EXCEPT !.devices = Create(devices, MkDevice(u, d))]
                      [] step = "create-dump-request" ->
                           IF p.existingDevicesCount > 0
                           THEN [Store EXCEPT !.dumpRequests =
                                    Create(dumpRequests, MkDumpRequest(u, d))]
                           ELSE Store
                      [] step = "usage" ->
                           [Store EXCEPT !.usage = updateUsageData(usage, u, d, 0)])

\* apiSubmitHandler with a body of one entry: updateUsageData, the Find of
\* the user's devices, then one Create per device found; the order of the
\* rows Find returned is the database's choice.
SubmitSteps == <<"usage", "find-devices", "create">>

SubmitStep(p) ==
    /\ p.req.op = "submit" /\ ~p.done /\ Len(p.req.batch) = 1
    /\ LET entry == p.req.batch[1]
           step == SubmitSteps[p.pc]
       IN  CASE step = "usage" ->
                  Run(p, Advance(p, SubmitSteps),
                      [Store EXCEPT !.usage =
                          updateUsageData(usage, entry.userId, entry.deviceId, 1)])
             [] step = "find-devices" ->
                  LET devs == DevicesOf(devices, entry.userId)
                  IN  IF Count(devs) = 0 THEN Run(p, Panic(p), Store)
                      ELSE Run(p, Advance([p EXCEPT !.found = devs], SubmitSteps), Store)
             [] step = "create" ->
                  \E dev \in DOMAIN p.found :
                      LET rest == p.found (-) SetToBag({dev})
                          q == [p EXCEPT !.found = rest]
                      IN  Run(p, IF rest = EmptyBag THEN Advance(q, SubmitSteps) ELSE q,
                              [Store EXCEPT !.entries =
                                  Create(entries, [entry EXCEPT !.deviceId = dev.deviceId])])

RegisterRequest(u, d) == Request("register", u, d, "", NoBatch, NoRequest)
SubmitRequest(batch) == Request("submit", "", "", "", batch, NoRequest)
QueryRequest(u, d) == Request("query", u, d, "", NoBatch, NoRequest)

\* No request like req has been accepted.
Fresh(req) == \A p \in DOMAIN procs : p.req # req

Returned(op) == Where(procs, {p \in DOMAIN procs : p.req.op = op /\ p.done})
InFlight == {p \in DOMAIN procs : ~p.done}

----------------------------------------------------------------------------
(* SpecRace: a device registers, an entry is submitted, and the device     *)
(* polls with several Query requests at once.                              *)

MaxQueries == 6

RaceDeviceIds == {"A"}

RaceBounds ==
    Count(Where(procs, {p \in DOMAIN procs : p.req.op = "query"})) <= MaxQueries

NextRace ==
    \/ \E u \in Users, d \in RaceDeviceIds :
          Fresh(RegisterRequest(u, d)) /\ Accept(RegisterRequest(u, d))
    \/ \E batch \in PollBatches : Fresh(SubmitRequest(batch)) /\ Accept(SubmitRequest(batch))
    \/ \E u \in Users, d \in RaceDeviceIds : Accept(QueryRequest(u, d)) /\ RaceBounds'
    \/ \E p \in DOMAIN procs : RegisterStep(p)
    \/ \E p \in DOMAIN procs : SubmitStep(p)
    \/ \E p \in DOMAIN procs : QueryStep(p)

SpecRace == Init /\ [][NextRace]_vars

\* The Query responses returned to device d that contain the mailbox row of
\* the entry with the given payload.
Deliveries(d, payload) ==
    Where(procs, {p \in DOMAIN Returned("query") :
                    /\ p.req.deviceId = d
                    /\ \E r \in DOMAIN p.body : r.encryptedData = payload})

\* Each mailbox holds at most one row of each entry.
OneRowPerMailbox ==
    \A r \in DOMAIN entries :
        Count(Where(entries, {x \in DOMAIN entries :
                      x.deviceId = r.deviceId /\ x.encryptedData = r.encryptedData})) = 1

\* C8 as stated: however the statements of concurrent Query requests of one
\* device interleave, a row of its mailbox is contained in at most 4 Query
\* responses.
C8_AtMostFourDeliveries ==
    \A d \in RaceDeviceIds, batch \in PollBatches :
        Count(Deliveries(d, batch[1].encryptedData)) <= QueryReadCountLimit - 1

\* The deliveries by Query requests whose UPDATE counted the row.
CountedDeliveries(d, payload) ==
    Where(procs, {p \in DOMAIN Deliveries(d, payload) : p.rowsAffected > 0})

\* C8, amended: however the statements of concurrent Query requests of one
\* device interleave, a row of its mailbox is contained in at most 4
\* responses of Query requests whose increment was applied to the row.  (A
\* Query whose increment ran before the row was inserted and whose read ran
\* after it returns the row without having counted it.)
C8_AtMostFourCountedDeliveries ==
    /\ OneRowPerMailbox
    /\ \A d \in RaceDeviceIds, batch \in PollBatches :
          Count(CountedDeliveries(d, batch[1].encryptedData)) <= QueryReadCountLimit - 1

\* Four responses of polls that counted the row carried it, two of them
\* identical because both polls had incremented before either read, and a
\* further poll that counted it came back without it.
C8_Witness ==
    /\ Count(CountedDeliveries("A", <<"A", 1>>)) = QueryReadCountLimit - 1
    /\ \E p \in DOMAIN CountedDeliveries("A", <<"A", 1>>) : CopiesIn(p, procs) >= 2
    /\ \E p \in DOMAIN Returned("query") : p.rowsAffected > 0 /\ p.body = EmptyBag

\* C39: a mailbox row that has aged out of the redelivery window was
\* contained in a Query response returned to the mailbox's device.
C39_DeliveredBeforeAgedOut ==
    \A r \in DOMAIN entries :
        r.readCount >= QueryReadCountLimit =>
            Deliveries(r.deviceId, r.encryptedData) # EmptyBag

----------------------------------------------------------------------------
(* SpecJoin: the devices of a user register while an entry of the user is  *)
(* submitted.                                                              *)

NextJoin ==
    \/ \E u \in Users, d \in DelDeviceIds :
          Fresh(RegisterRequest(u, d)) /\ Accept(RegisterRequest(u, d))
    \/ \E batch \in PollBatches : Fresh(SubmitRequest(batch)) /\ Accept(SubmitRequest(batch))
    \/ \E p \in DOMAIN procs : RegisterStep(p)
    \/ \E p \in DOMAIN procs : SubmitStep(p)

SpecJoin == Init /\ [][NextJoin]_vars

\* C9: once a Submit that succeeded and the Register requests it ran
\* alongside have all returned, every registered device of the user either
\* holds a copy of the submitted entry or has a DumpRequest pending.
C9_NoLostWrite ==
    (InFlight = {} /\ \E p \in DOMAIN Returned("submit") : p.ok) =>
        \A p \in DOMAIN Returned("submit") : \A dev \in DOMAIN devices :
            dev.userId = p.req.batch[1].userId =>
                \/ \E r \in DOMAIN entries :
                      /\ r.deviceId = dev.deviceId
                      /\ r.encryptedData = p.req.batch[1].encryptedData
                \/ DumpRequestsOf(dumpRequests, dev.userId, dev.deviceId) # {}

\* C38: once the Register requests that ran alongside each other have all
\* returned, at most one device of the user is without a DumpRequest that
\* was created for it.
C38_OneFirstDeviceAtMost ==
    InFlight = {} =>
        \A u \in Users :
            Cardinality({dev \in DOMAIN devices :
                            /\ dev.userId = u
                            /\ DumpRequestsOf(dumpRequests, u, dev.deviceId) = {}}) <= 1

----------------------------------------------------------------------------
(* SpecSubmit: bodies of one or two entries, of a user who has registered  *)
(* a device and of one who may not have.                                   *)

SubmitUsers == {"u1", "u2"}

SubmitEntries == {MkEntry(u, "A", 1, 0) : u \in SubmitUsers}

SubmitBatches ==
    {<<e>> : e \in SubmitEntries} \cup {<<e, f>> : e \in SubmitEntries, f \in SubmitEntries}

SubmitBounds ==
    /\ Count(devices) <= MaxDevices
    /\ Count(entries) <= MaxEntries
    /\ \A r \in DOMAIN usage : r.numEntriesHandled <= MaxEntries

NextSubmit ==
    \/ \E u \in SubmitUsers, d \in DeviceIds : Register(u, d) /\ SubmitBounds'
    \/ \E batch \in SubmitBatches : Submit(batch) /\ SubmitBounds'

SpecSubmit == Init /\ [][NextSubmit]_vars

\* The rows of a user in the Entry Store.
RowsOf(en, userId) == Where(en, {r \in DOMAIN en : r.userId = userId})

\* C11: a Submit whose body holds an entry of a user with no registered
\* device fails, and adds no row of that user to the Entry Store.
C11_SubmitWithoutDevicesFails ==
    [][\A i \in DOMAIN last'.req.batch :
          (/\ last'.req.op = "submit"
           /\ DevicesOf(devices, last'.req.batch[i].userId) = EmptyBag)
             => /\ ~last'.ok
                /\ RowsOf(entries', last'.req.batch[i].userId)
                      = RowsOf(entries, last'.req.batch[i].userId)]_vars

\* A Submit has just failed on its second entry, whose user has no device,
\* after the first entry was fanned out, and the store holds no row of the
\* second entry's user.
C11_Witness ==
    /\ last.req.op = "submit" /\ ~last.ok
    /\ Len(last.req.batch) = 2
    /\ DevicesOf(devices, last.req.batch[1].userId) # EmptyBag
    /\ DevicesOf(devices, last.req.batch[2].userId) = EmptyBag
    /\ RowsOf(entries, last.req.batch[1].userId) # EmptyBag
    /\ RowsOf(entries, last.req.batch[2].userId) = EmptyBag

\* C19: a Submit that repeats the Submit served just before it leaves every
\* mailbox with the rows it held after the first: no Query or Bootstrap
\* response comes to contain a submitted entry more often.
C19_SubmitReplayAddsNothing ==
    [][(/\ last.req.op = "submit" /\ last.ok
        /\ Served("submit")
        /\ last'.req.batch = last.req.batch)
          => \A d \in DeviceIds :
                Where(entries', Mailbox(entries', d)) = Where(entries, Mailbox(entries, d))]_vars

\* C36: a Submit that fails leaves the Entry Store and usage_data as they
\* were.
C36_FailedSubmitNoEffect ==
    [][(last'.req.op = "submit" /\ ~last'.ok) => entries' = entries /\ usage' = usage]_vars

----------------------------------------------------------------------------
(* SpecPeers: the devices of two users register, some of them again, and   *)
(* poll for the dump requests of their peers.                              *)

PeerBounds == Count(devices) <= MaxDevices + 2

NextPeers ==
    \/ \E u \in SubmitUsers, d \in DeviceIds : Register(u, d) /\ PeerBounds'
    \/ \E u \in SubmitUsers, d \in DeviceIds : GetPendingDumpRequests(u, d) /\ PeerBounds'

SpecPeers == Init /\ [][NextPeers]_vars

\* C12: GetPendingDumpRequests(userId, deviceId) returns every DumpRequest
\* row of userId whose requestingDeviceId is not deviceId, as often as it is
\* stored, returns no other row, and leaves every table as it was.
C12_PeerDumpRequests ==
    [][Served("get-dump-requests") =>
          /\ \A q \in DOMAIN dumpRequests \cup DOMAIN last'.body :
                CopiesIn(q, last'.body) =
                    IF q.userId = last'.req.userId
                          /\ q.requestingDeviceId # last'.req.deviceId
                    THEN CopiesIn(q, dumpRequests)
                    ELSE 0
          /\ UNCHANGED tables]_vars

\* A device has just been handed the pending request of its peer while its
\* own request and a request of another user are stored.
C12_Witness ==
    /\ last.req.op = "get-dump-requests" /\ last.ok
    /\ last.body # EmptyBag
    /\ BagIn(MkDumpRequest(last.req.userId, last.req.deviceId), dumpRequests)
    /\ \E q \in DOMAIN dumpRequests : q.userId # last.req.userId

----------------------------------------------------------------------------
(* SpecRelease: cron cycles against a release feed that names a tag, or    *)
(* fails, while any subset of the recent tags has all its artifacts.       *)

MaxTag == 6

\* The tags from MaxTag - 5 to MaxTag.
ReleaseTags == {Tag("v0", n) : n \in (MaxTag - 5)..MaxTag}

\* The feed names "v0.06" for v0.6, a name that is no tag of two parts, a
\* name whose second part is no number, and an absent name.
PaddedTag == <<Text("v0"), Numeral(1, MaxTag)>>
OddNames == {UNKNOWN, <<Text("v0"), Text("beta")>>, <<Text("v0"), Itoa(1), Itoa(2)>>, <<Text("")>>}

FailingFeeds ==
    {FeedUnreachable, FeedRateLimited, FeedStatus(500), FeedStatus(403), FeedUnparseable}

ReleaseInputs ==
    {[feed |-> FeedLatest(t), published |-> P] :
        t \in {Tag("v0", MaxTag), Tag("v0", MaxTag - 3), PaddedTag}, P \in SUBSET ReleaseTags}
    \cup {[feed |-> FeedLatest(PaddedTag), published |-> P \cup {PaddedTag}] :
             P \in SUBSET ReleaseTags}
    \cup {[feed |-> FeedLatest(t), published |-> P \cup X] :
             t \in OddNames, P \in {{}, ReleaseTags}, X \in {{}, OddNames}}
    \cup {[feed |-> f, published |-> ReleaseTags] : f \in FailingFeeds}

NextRelease ==
    \/ \E in \in ReleaseInputs : Cron(in.feed, in.published)
    \/ Download

SpecRelease == Init /\ [][NextRelease]_vars

\* A tag decrementVersion can step down from, and the tag k steps below it.
Decrementable(tag) == tag # UNKNOWN /\ Len(tag) = 2 /\ tag[2].numeric
Below(tag, k) == <<tag[1], Numeral(0, tag[2].n - k)>>

ResolvedFromFeed == last.req.op = "trigger-cron" /\ upstream.feed.kind = "latest"

\* C13: the tag the resolver settles on is the initial tag when that is
\* valid; otherwise the first valid tag below it, every tag in between having
\* been probed and found invalid; otherwise, when none of the tags it probed
\* (the initial tag and the four below it) is valid, the initial tag.  So it
\* is always the initial tag or a tag that passed validation.
C13_FirstValidProbedTag ==
    ResolvedFromFeed =>
        LET initial == upstream.feed.name
            published == upstream.published
        IN  /\ initial \in published => ReleaseVersion = initial
            /\ ReleaseVersion = initial \/ ReleaseVersion \in published
            /\ ReleaseVersion # initial =>
                  /\ Decrementable(initial)
                  /\ \E k \in 1..4 :
                        /\ ReleaseVersion = Below(initial, k)
                        /\ \A j \in 1..(k - 1) : Below(initial, j) \notin published
            /\ (ReleaseVersion = initial /\ initial \notin published /\ Decrementable(initial))
                  => \A k \in 1..4 : Below(initial, k) \notin published

\* v0.6 and v0.5 lack artifacts, v0.4 has them all: the resolver settled on
\* v0.4 (v0.3 is valid too, but lower).
C13_Witness ==
    /\ ResolvedFromFeed
    /\ upstream.feed.name = Tag("v0", MaxTag)
    /\ upstream.published = {Tag("v0", MaxTag - 2), Tag("v0", MaxTag - 3)}
    /\ ReleaseVersion = Tag("v0", MaxTag - 2)

\* C14: the version the download endpoint exposes, once a cron cycle has
\* stored the tag it resolved from the feed, is a tag whose artifacts were
\* all found in that cycle.
C14_ExposedVersionValidated ==
    upstream.feed.kind = "latest" => ReleaseVersion \in upstream.published

\* C15: a cron cycle whose feed request fails (no answer, the rate-limit
\* answer, a status other than 200, a body that does not parse) leaves the
\* resolved version as it was and does not fail; updateReleaseVersion
\* returns no error for the rate-limit answer and an error for the others.
C15_FeedFailureKeepsVersion ==
    [][(last'.req.op = "trigger-cron" /\ upstream'.feed \in FailingFeeds) =>
          /\ ReleaseVersion' = ReleaseVersion
          /\ last'.ok
          /\ updateReleaseVersion(ReleaseVersion, upstream'.feed, upstream'.published).err
                <=> upstream'.feed # FeedRateLimited]_vars

\* The feed has just answered with the rate limit and the tag resolved by an
\* earlier cycle is still the one exposed.
C15_Witness ==
    /\ last.req.op = "trigger-cron" /\ last.ok
    /\ upstream.feed = FeedRateLimited
    /\ ReleaseVersion \in ReleaseTags

\* C32: when the initial tag and the four tags below it are invalid and the
\* fifth tag below it is valid, the resolver settles on that fifth tag.
C32_FifthPredecessorReturned ==
    (/\ ResolvedFromFeed
     /\ Decrementable(upstream.feed.name)
     /\ upstream.feed.name \notin upstream.published
     /\ \A k \in 1..4 : Below(upstream.feed.name, k) \notin upstream.published
     /\ Below(upstream.feed.name, 5) \in upstream.published)
        => ReleaseVersion = Below(upstream.feed.name, 5)

----------------------------------------------------------------------------
(* SpecJanitor: device A polls its mailbox and its deletion feed past the  *)
(* janitor's thresholds while cron cycles run.                             *)

\* A deletion request that names no entry of the store.
JanitorRequests == {MkDeletionRequest("u1", "", {MkMessage("A", 2)}, 0)}

JanitorBounds ==
    /\ \A r \in DOMAIN entries : r.readCount <= PollMaxReadCount
    /\ \A q \in DOMAIN deletionRequests : q.readCount <= FeedMaxReadCount
    /\ \A r \in DOMAIN usage : r.numEntriesHandled <= MaxHandled

NextJanitor ==
    \/ \E u \in Users, d \in DeviceIds : Unregistered(u, d) /\ Register(u, d) /\ JanitorBounds'
    \/ \E batch \in PollBatches : Unsent(batch) /\ Submit(batch) /\ JanitorBounds'
    \/ \E request \in JanitorRequests :
          Unrequested(request) /\ AddDeletionRequest(request) /\ JanitorBounds'
    \/ Query("u1", "A") /\ JanitorBounds'
    \/ GetPendingDeletionRequests("u1", "A") /\ JanitorBounds'
    \/ Cron(FeedUnreachable, {}) /\ JanitorBounds'

SpecJanitor == Init /\ [][NextJanitor]_vars

\* C16: a janitor cycle removes every entry row with readCount > 10 and
\* every deletion request row with readCount > 100, and leaves every other
\* row of the two tables, and the Device, DumpRequest and UsageData tables,
\* as they were.
C16_JanitorDeletesExactlyExpired ==
    [][Served("trigger-cron") =>
          /\ DOMAIN entries' \subseteq DOMAIN entries
          /\ \A r \in DOMAIN entries :
                CopiesIn(r, entries') = IF r.readCount > 10 THEN 0 ELSE CopiesIn(r, entries)
          /\ DOMAIN deletionRequests' \subseteq DOMAIN deletionRequests
          /\ \A q \in DOMAIN deletionRequests :
                CopiesIn(q, deletionRequests') =
                    IF q.readCount > 100 THEN 0 ELSE CopiesIn(q, deletionRequests)
          /\ UNCHANGED <<devices, dumpRequests, usage>>]_vars

\* A cycle has just run: the copy in mailbox A, read more than 10 times, is
\* gone while the unread copy in mailbox B, the deletion request read 100
\* times and the dump request of B are still stored.
C16_Witness ==
    /\ last.req.op = "trigger-cron"
    /\ Mailbox(entries, "A") = {}
    /\ Mailbox(entries, "B") # {}
    /\ \E r \in DOMAIN usage : r.userId = "u1" /\ r.deviceId = "A" /\ r.numEntriesHandled = 1
    /\ \E q \in DOMAIN deletionRequests : q.readCount = 100
    /\ dumpRequests # EmptyBag

----------------------------------------------------------------------------
(* SpecSweep: cron cycles run while Query requests of the device are in    *)
(* flight, between their statements.                                       *)

SweepQueries == 2

SweepBounds ==
    /\ \A r \in DOMAIN entries : r.readCount <= PollMaxReadCount
    /\ \A r \in DOMAIN usage : r.numEntriesHandled <= MaxHandled
    /\ Count(Where(procs, InFlight)) <= SweepQueries
    /\ Count(procs) <= SweepQueries + 1

NextSweep ==
    \/ \E u \in Users, d \in RaceDeviceIds :
          Unregistered(u, d) /\ Register(u, d) /\ SweepBounds'
    \/ \E batch \in PollBatches : Unsent(batch) /\ Submit(batch) /\ SweepBounds'
    \/ \E u \in Users, d \in RaceDeviceIds : Query(u, d) /\ SweepBounds'
    \/ \E u \in Users, d \in RaceDeviceIds : Accept(QueryRequest(u, d)) /\ SweepBounds'
    \/ \E p \in DOMAIN procs : QueryStep(p) /\ SweepBounds'
    \/ Cron(FeedUnreachable, {}) /\ SweepBounds'

SpecSweep == Init /\ [][NextSweep]_vars

\* A janitor cycle: the only step that records trigger-cron and moves no
\* request in flight.
JanitorStep == last'.req.op = "trigger-cron" /\ procs' = procs

\* C17: a janitor cycle, wherever it falls among the statements of the Query
\* requests in flight, removes no row that a Query of the owning device
\* would return: what every device's Query would read is the same after the
\* cycle as before, and every row it removes has left the readCount < 5
\* window, which no row re-enters.
C17_JanitorSparesVisibleRows ==
    [][/\ JanitorStep =>
            /\ \A r \in DOMAIN entries :
                  CopiesIn(r, entries') < CopiesIn(r, entries) => r.readCount >= 5
            /\ \A d \in RaceDeviceIds :
                  Where(entries', Visible(entries', d)) = Where(entries, Visible(entries, d))
       /\ \A r \in DOMAIN entries' :
            r.readCount < 5 =>
                \E x \in DOMAIN entries \cup {MkEntry(r.userId, r.encryptedData[1], r.date, 0)} :
                    /\ x.readCount <= r.readCount
                    /\ [x EXCEPT !.readCount = r.readCount, !.deviceId = r.deviceId] = r
      ]_vars

\* The janitor removed the row after a Query in flight had incremented it
\* and before that Query read.
C17_Witness ==
    /\ last.req.op = "trigger-cron"
    /\ entries = EmptyBag
    /\ \E p \in InFlight :
          p.req.op = "query" /\ QuerySteps[p.pc] = "read" /\ p.rowsAffected > 0

----------------------------------------------------------------------------
(* SpecCron: the background loop started by init runs its cycles, one      *)
(* statement at a time, next to trigger-cron requests and the traffic of   *)
(* one device.                                                             *)

\* runBackgroundJobs: cron's two sub-tasks, then the sleep, for ever.
BackgroundSteps == <<"resolve", "clean", "sleep">>

BackgroundJobs == Request("background", "", "", "", NoBatch, NoRequest)

StartBackgroundJobs == Fresh(BackgroundJobs) /\ Accept(BackgroundJobs)

\* One statement of the loop; in the process, ok records whether the
\* updateReleaseVersion of the current cycle returned no error.
BackgroundStep(p, feed, published) ==
    /\ p.req = BackgroundJobs
    /\ LET step == BackgroundSteps[p.pc]
           resolved == updateReleaseVersion(ReleaseVersion, feed, published)
           q == [p EXCEPT !.pc = IF p.pc = Len(BackgroundSteps) THEN 1 ELSE p.pc + 1,
                          !.ok = IF step = "resolve" THEN ~resolved.err ELSE p.ok]
           s == IF step = "clean" THEN cleanDatabase(Store) ELSE Store
       IN  /\ procs' = (procs (-) SetToBag({p})) (+) SetToBag({q})
           /\ devices' = s.devices
           /\ entries' = s.entries
           /\ usage' = s.usage
           /\ dumpRequests' = s.dumpRequests
           /\ deletionRequests' = s.deletionRequests
           /\ ReleaseVersion' = IF step = "resolve" THEN resolved.version ELSE ReleaseVersion
           /\ upstream' = IF step = "resolve"
                          THEN [feed |-> feed, published |-> published] ELSE upstream
           /\ UNCHANGED last

CronInputs ==
    {[feed |-> FeedUnreachable, published |-> {}],
     [feed |-> FeedLatest(Tag("v0", MaxTag)), published |-> {Tag("v0", MaxTag)}]}

CronBounds ==
    /\ \A r \in DOMAIN entries : r.readCount <= PollMaxReadCount
    /\ \A r \in DOMAIN usage : r.numEntriesHandled <= MaxHandled

BackgroundRuns == \E p \in DOMAIN procs, in \in CronInputs : BackgroundStep(p, in.feed, in.published)

NextCron ==
    \/ StartBackgroundJobs
    \/ BackgroundRuns
    \/ \E in \in CronInputs : Cron(in.feed, in.published)
    \/ \E u \in Users, d \in RaceDeviceIds : Unregistered(u, d) /\ Register(u, d) /\ CronBounds'
    \/ \E batch \in PollBatches : Unsent(batch) /\ Submit(batch) /\ CronBounds'
    \/ \E u \in Users, d \in RaceDeviceIds : Query(u, d) /\ CronBounds'

\* The goroutine of the loop is scheduled, and its sleep ends.
SpecCron ==
    Init /\ [][NextCron]_vars /\ WF_vars(StartBackgroundJobs) /\ WF_vars(BackgroundRuns)

\* The loop is about to run the given statement.
BackgroundAt(step) ==
    \E p \in DOMAIN procs : p.req = BackgroundJobs /\ BackgroundSteps[p.pc] = step

ResolveFailed == \E p \in DOMAIN procs : p.req = BackgroundJobs /\ ~p.ok

\* C18: a trigger-cron request never fails and has collected the garbage
\* whatever the release feed answered; the background loop never ends; a
\* cycle whose version resolution returned an error still runs its garbage
\* collection and reaches its sleep; and cycle follows cycle for ever.
C18_CronNeverFails ==
    /\ [][JanitorStep => last'.ok /\ ExpiredEntries(entries') = {}]_vars
    /\ [](\A p \in DOMAIN procs : ~p.done)
    /\ (BackgroundAt("clean") /\ ResolveFailed) ~> (BackgroundAt("sleep") /\ ExpiredEntries(entries) = {})
    /\ []<>BackgroundAt("resolve")
    /\ []<>BackgroundAt("sleep")

\* The loop has finished a cycle whose version resolution failed: the
\* garbage is collected and the loop is at its sleep.
C18_Witness ==
    /\ BackgroundAt("sleep") /\ ResolveFailed
    /\ upstream.feed = FeedUnreachable
    /\ entries = EmptyBag
    /\ \E r \in DOMAIN usage : r.numEntriesHandled = 1

----------------------------------------------------------------------------
(* SpecReplay: an entry is submitted, possibly more than once, and the     *)
(* deletion request that names it is sent again and again.                 *)

MaxDeletions == 4

ReplayBounds ==
    /\ Count(entries) <= MaxEntries
    /\ Count(deletionRequests) <= MaxDeletions
    /\ \A r \in DOMAIN usage : r.numEntriesHandled <= MaxEntries

NextReplay ==
    \/ \E u \in Users, d \in DeviceIds : Unregistered(u, d) /\ Register(u, d) /\ ReplayBounds'
    \/ \E batch \in DelBatches : Submit(batch) /\ ReplayBounds'
    \/ \E request \in DelRequests : AddDeletionRequest(request) /\ ReplayBounds'

SpecReplay == Init /\ [][NextReplay]_vars

\* C20: an AddDeletionRequest that repeats the one served just before it
\* removes no row the first left in place: the Entry Store is the same after
\* the second application as after the first.
C20_DeletionReplayRemovesNothing ==
    [][(/\ last.req.op = "add-deletion-request" /\ last.ok
        /\ Served("add-deletion-request")
        /\ last'.req.request = last.req.request)
          => entries' = entries]_vars

\* The request has just been applied a second time: it is stored twice for
\* device A, whose mailbox lost its copies, while mailbox B still holds the
\* copies the first application left.
C20_Witness ==
    /\ last.req.op = "add-deletion-request" /\ last.ok
    /\ CopiesIn(StoredFor(last.req.request, "A"), deletionRequests) >= 2
    /\ Mailbox(entries, "A") = {}
    /\ Mailbox(entries, "B") # {}

----------------------------------------------------------------------------
(* SpecParams: requests that may come without a user_id, a device_id or a  *)
(* requesting_device_id ("" is the absent or empty parameter).             *)

ParamUsers == {"u1", ""}
ParamDeviceIds == {"A", ""}

ParamBounds ==
    LimitedTo(MaxDevices, MaxEntries, MaxReadCount, MaxEntries, MaxDevices, MaxDevices, MaxDeletionReadCount)

NextParams ==
    \/ \E u \in ParamUsers, d \in ParamDeviceIds : Register(u, d) /\ ParamBounds'
    \/ \E u \in ParamUsers, d \in ParamDeviceIds : Query(u, d) /\ ParamBounds'
    \/ \E u \in ParamUsers, d \in ParamDeviceIds : Bootstrap(u, d) /\ ParamBounds'
    \/ \E u \in ParamUsers, d \in ParamDeviceIds : GetPendingDumpRequests(u, d) /\ ParamBounds'
    \/ \E u \in ParamUsers, src \in ParamDeviceIds, rd \in ParamDeviceIds, batch \in PollBatches :
          SubmitDump(u, src, rd, batch) /\ ParamBounds'
    \/ \E u \in ParamUsers, d \in ParamDeviceIds :
          GetPendingDeletionRequests(u, d) /\ ParamBounds'
    \/ \E request \in DelRequests :
          Unrequested(request) /\ AddDeletionRequest(request) /\ ParamBounds'

SpecParams == Init /\ [][NextParams]_vars

\* The endpoints that require user_id and device_id (submit-dump:
\* user_id, source_device_id and requesting_device_id).
ParamOps ==
    {"register", "query", "bootstrap", "get-dump-requests", "submit-dump",
     "get-deletion-requests"}

LacksParam(req) ==
    \/ req.userId = ""
    \/ req.deviceId = ""
    \/ req.op = "submit-dump" /\ req.requestingDeviceId = ""

\* C21: a request to one of the six endpoints that lacks a required
\* parameter fails and leaves every table as it was.
C21_MissingParamNoEffect ==
    [][(last'.req.op \in ParamOps /\ LacksParam(last'.req))
          => ~last'.ok /\ UNCHANGED tables]_vars

\* A submit-dump that named its user and its source but no requesting
\* device has just been refused, while a dump request is pending.
C21_Witness ==
    /\ last.req.op = "submit-dump" /\ ~last.ok
    /\ last.req.userId # "" /\ last.req.deviceId # ""
    /\ last.req.requestingDeviceId = ""
    /\ dumpRequests # EmptyBag

\* C40: a Query returns rows of its own user only and leaves the rows of
\* every other user as they were.
C40_QueryWithinTenant ==
    [][Served("query") =>
          /\ \A r \in DOMAIN last'.body : r.userId = last'.req.userId
          /\ \A r \in DOMAIN entries :
                r.userId # last'.req.userId => CopiesIn(r, entries') = CopiesIn(r, entries)]_vars

----------------------------------------------------------------------------
(* SpecAdd: deletion requests of a user whose devices may be registered    *)
(* more than once, or not at all while a dump has filled the store.        *)

AddBounds ==
    /\ Count(devices) <= MaxDevices
    /\ Count(entries) <= MaxEntries
    /\ Count(deletionRequests) <= MaxDevices
    /\ \A r \in DOMAIN usage : r.numEntriesHandled <= MaxEntries

NextAdd ==
    \/ \E d \in DeviceIds : Register("u1", d) /\ AddBounds'
    \/ \E batch \in PollBatches : Submit(batch) /\ AddBounds'
    \/ \E batch \in PollBatches : SubmitDump("u1", "A", "B", batch) /\ AddBounds'
    \/ \E request \in DelRequests : AddDeletionRequest(request) /\ AddBounds'

SpecAdd == Init /\ [][NextAdd]_vars

----------------------------------------------------------------------------
(* SpecBoot: two users with the same device ids submit, poll and           *)
(* bootstrap.                                                              *)

BootBatches == {<<e>> : e \in SubmitEntries}

\* The user of the batch has no row in the store.
Unstored(batch) == \A r \in DOMAIN entries : r.userId # batch[1].userId

BootBounds ==
    /\ \A r \in DOMAIN entries : r.readCount <= QueryReadCountLimit + MaxReadCount
    /\ \A r \in DOMAIN usage : r.numEntriesHandled <= MaxHandled

NextBoot ==
    \/ \E u \in SubmitUsers, d \in DeviceIds : Unregistered(u, d) /\ Register(u, d) /\ BootBounds'
    \/ \E batch \in BootBatches : Unstored(batch) /\ Submit(batch) /\ BootBounds'
    \/ \E d \in DeviceIds : Query("u1", d) /\ BootBounds'
    \/ \E u \in SubmitUsers : Bootstrap(u, "A") /\ BootBounds'
    \/ \E u \in SubmitUsers : EBootstrap(u, "A") /\ BootBounds'

SpecBoot == Init /\ [][NextBoot]_vars

\* C23: Bootstrap returns every row of the user, from every mailbox and
\* whatever its readCount, as often as it is stored, returns no row of
\* another user, and leaves the Entry Store as it was.
C23_BootstrapReturnsAll ==
    [][IsBootstrap =>
          /\ \A r \in DOMAIN entries \cup DOMAIN last'.body :
                CopiesIn(r, last'.body) =
                    IF r.userId = last'.req.userId THEN CopiesIn(r, entries) ELSE 0
          /\ entries' = entries]_vars

\* A bootstrap has just returned rows of two mailboxes, one of them read
\* past the window, while rows of the other user are stored.
C23_Witness ==
    /\ last.req.op = "bootstrap" /\ last.ok
    /\ \E r \in DOMAIN last.body : r.deviceId = "A" /\ r.readCount >= QueryReadCountLimit
    /\ \E r \in DOMAIN last.body : r.deviceId = "B" /\ r.readCount = 0
    /\ \E r \in DOMAIN entries : r.userId # last.req.userId

----------------------------------------------------------------------------
(* SpecLife: every operation that writes to the store, over the devices of *)
(* one user, which may register more than once.                            *)

LifeBatches == PollBatches \cup {<<MkEntry("u2", "A", 1, 0)>>}

\* A dump is sent to a device whose mailbox is empty.
EmptyMailbox(d) == \A r \in DOMAIN entries : r.deviceId # d

LifeBounds ==
    /\ Count(devices) <= MaxDevices
    /\ \A r \in DOMAIN entries : r.readCount <= MaxReadCount
    /\ \A r \in DOMAIN usage : r.numEntriesHandled <= MaxHandled

NextLife ==
    \/ \E d \in DeviceIds : Register("u1", d) /\ LifeBounds'
    \/ \E batch \in PollBatches : Unsent(batch) /\ Submit(batch) /\ LifeBounds'
    \/ \E d \in DeviceIds : Query("u1", d) /\ LifeBounds'
    \/ EQuery("u1", "A") /\ LifeBounds'
    \/ Bootstrap("u1", "A") /\ LifeBounds'
    \/ GetPendingDumpRequests("u1", "A") /\ LifeBounds'
    \/ \E rd \in DeviceIds, batch \in LifeBatches :
          EmptyMailbox(rd) /\ SubmitDump("u1", "A", rd, batch) /\ LifeBounds'
    \/ \E request \in DelRequests :
          Unrequested(request) /\ AddDeletionRequest(request) /\ LifeBounds'
    \/ WipeDb /\ LifeBounds'
    \/ Cron(FeedUnreachable, {}) /\ LifeBounds'

SpecLife == Init /\ [][NextLife]_vars

\* C26: a step changes no column of a stored entry row but readCount, and
\* that one only upwards: a poll turns the surviving rows of the polled
\* mailbox into rows with readCount one higher and leaves or deletes the
\* others, a submission or dump adds rows to the rows there are, and every
\* other step leaves or deletes rows.
C26_RowsImmutableButReadCount ==
    [][LET op == last'.req.op
           Before(r) == [r EXCEPT !.readCount = @ - 1]
       IN  IF op \in {"query", "equery"} /\ last'.ok
           THEN \A r \in DOMAIN entries' :
                   IF r.deviceId = last'.req.deviceId
                   THEN r.readCount > 0 /\ CopiesIn(r, entries') <= CopiesIn(Before(r), entries)
                   ELSE CopiesIn(r, entries') <= CopiesIn(r, entries)
           ELSE IF op \in {"submit", "submit-dump"}
                THEN entries \sqsubseteq entries'
                ELSE entries' \sqsubseteq entries]_vars

\* A poll has just raised the rows of its mailbox to the bound while the
\* other mailbox holds a row nobody read.
C26_Witness ==
    /\ last.req.op = "query" /\ last.ok
    /\ \E r \in DOMAIN entries : r.deviceId = last.req.deviceId /\ r.readCount = MaxReadCount
    /\ \E r \in DOMAIN entries : r.deviceId # last.req.deviceId /\ r.readCount = 0

\* C27: a registration adds its Device row to the registry and every other
\* step leaves the registry as it was.
C27_RegistryOnlyGrows ==
    [][IF Served("register")
       THEN devices' = devices (+) SetToBag({MkDevice(last'.req.userId, last'.req.deviceId)})
       ELSE devices' = devices]_vars

\* The store was just wiped after entries had been handled: the registry is
\* full and dump requests are pending.
C27_Witness ==
    /\ last.req.op = "wipe-db" /\ last.ok
    /\ entries = EmptyBag
    /\ Count(devices) = MaxDevices
    /\ dumpRequests # EmptyBag
    /\ \E r \in DOMAIN usage : r.numEntriesHandled > 0

\* C28: the number of DumpRequest rows of a (userId, requestingDeviceId)
\* falls only in a step that serves a successful SubmitDump for that pair.
C28_OnlyDumpClearsRequest ==
    [][\A q \in DOMAIN dumpRequests :
          CopiesIn(q, dumpRequests') < CopiesIn(q, dumpRequests) =>
              /\ Served("submit-dump")
              /\ last'.req.userId = q.userId
              /\ last'.req.requestingDeviceId = q.requestingDeviceId]_vars

\* A dump has just cleared the requests of its device while the request of
\* another device of the user stays pending.
C28_Witness ==
    /\ last.req.op = "submit-dump" /\ last.ok
    /\ DumpRequestsOf(dumpRequests, last.req.userId, last.req.requestingDeviceId) = {}
    /\ \E q \in DOMAIN dumpRequests : q.userId = last.req.userId
    /\ \E r \in DOMAIN entries : r.deviceId = last.req.requestingDeviceId

\* C30: a Register of a (userId, deviceId) that already has a Device row
\* succeeds, adds one more Device row and adds a DumpRequest for the device.
C30_DuplicateRegistrationAdds ==
    [][(/\ last'.req.op = "register"
        /\ BagIn(MkDevice(last'.req.userId, last'.req.deviceId), devices))
          => /\ last'.ok
             /\ CopiesIn(MkDevice(last'.req.userId, last'.req.deviceId), devices')
                   = CopiesIn(MkDevice(last'.req.userId, last'.req.deviceId), devices) + 1
             /\ Count(devices') = Count(devices) + 1
             /\ dumpRequests' = dumpRequests
                   (+) SetToBag({MkDumpRequest(last'.req.userId, last'.req.deviceId)})]_vars

\* The only device of a user has just registered a second time and has a
\* DumpRequest addressed to itself.
C30_Witness ==
    /\ last.req.op = "register" /\ last.ok
    /\ CopiesIn(MkDevice(last.req.userId, last.req.deviceId), devices) = 2
    /\ Count(DevicesOf(devices, last.req.userId)) = 2
    /\ BagIn(MkDumpRequest(last.req.userId, last.req.deviceId), dumpRequests)

\* What a handler answers and what it leaves in the tables other than
\* usage_data.
Effect(out) ==
    [ok |-> out.ok, body |-> out.body, devices |-> out.store.devices,
     entries |-> out.store.entries, dumpRequests |-> out.store.dumpRequests,
     deletionRequests |-> out.store.deletionRequests]

\* The stores before and after the step differ in usage_data only.
OnlyUsageDiffers ==
    /\ usage' # usage
    /\ devices' = devices /\ entries' = entries
    /\ dumpRequests' = dumpRequests /\ deletionRequests' = deletionRequests

\* C35: in two stores that differ in usage_data only, every Register,
\* Submit, Query, Bootstrap, dump and deletion request gets the same answer
\* and leaves the same Device, Entry, DumpRequest and DeletionRequest tables.
C35_TelemetryNotConsulted ==
    [][OnlyUsageDiffers =>
          /\ \A u \in Users, d \in DeviceIds :
                /\ Effect(apiRegisterHandler(u, d)) = Effect(apiRegisterHandler(u, d))'
                /\ Effect(apiQueryHandler(u, d)) = Effect(apiQueryHandler(u, d))'
                /\ Effect(apiBootstrapHandler(u, d)) = Effect(apiBootstrapHandler(u, d))'
                /\ Effect(apiGetPendingDumpRequestsHandler(u, d))
                      = Effect(apiGetPendingDumpRequestsHandler(u, d))'
                /\ Effect(getDeletionRequestsHandler(u, d))
                      = Effect(getDeletionRequestsHandler(u, d))'
          /\ \A batch \in LifeBatches :
                /\ Effect(apiSubmitHandler(batch)) = Effect(apiSubmitHandler(batch))'
                /\ \A u \in Users, src \in DeviceIds, rd \in DeviceIds :
                      Effect(apiSubmitDumpHandler(u, src, rd, batch))
                          = Effect(apiSubmitDumpHandler(u, src, rd, batch))'
          /\ \A request \in DelRequests :
                Effect(addDeletionRequestHandler(request))
                    = Effect(addDeletionRequestHandler(request))']_vars

\* A bootstrap has just returned rows and written to usage_data only, while
\* dump and deletion requests are pending and entries have been counted.
C35_Witness ==
    /\ last.req.op = "bootstrap" /\ last.ok /\ last.body # EmptyBag
    /\ dumpRequests # EmptyBag /\ deletionRequests # EmptyBag
    /\ \E r \in DOMAIN usage : r.numEntriesHandled > 0
    /\ \E r \in DOMAIN usage : r.numEntriesHandled = 0

----------------------------------------------------------------------------
(* SpecOffline: the deletion feed polled past the janitor's threshold      *)
(* while the devices also query their mailboxes.                           *)

NextOffline ==
    \/ \E u \in Users, d \in DeviceIds : Unregistered(u, d) /\ Register(u, d) /\ FeedBounds'
    \/ \E request \in DelRequests :
          Unrequested(request) /\ AddDeletionRequest(request) /\ FeedBounds'
    \/ \E u \in Users, d \in DeviceIds : GetPendingDeletionRequests(u, d) /\ FeedBounds'
    \/ \E u \in Users, d \in DeviceIds : Query(u, d) /\ FeedBounds'
    \/ Cron(FeedUnreachable, {}) /\ FeedBounds'

SpecOffline == Init /\ [][NextOffline]_vars

\* The step serves a poll of the deletion feed by the device a row is
\* destined for.
PolledByDestination(q) ==
    /\ Served("get-deletion-requests")
    /\ last'.req.userId = q.userId
    /\ last'.req.deviceId = q.destinationDeviceId

\* C31: only a poll of get-deletion-requests by the device a DeletionRequest
\* row is destined for produces a row with a higher readCount; every other
\* step leaves the row as it is, unless it is a janitor cycle and the row's
\* readCount is above 100.
C31_OnlyDestinationAdvances ==
    [][/\ \A q \in DOMAIN deletionRequests' :
            (q.readCount > 0 /\ CopiesIn(q, deletionRequests') > CopiesIn(q, deletionRequests))
                => PolledByDestination(q)
       /\ \A q \in DOMAIN deletionRequests :
            ~PolledByDestination(q) =>
                \/ CopiesIn(q, deletionRequests') >= CopiesIn(q, deletionRequests)
                \/ /\ last'.req.op = "trigger-cron"
                   /\ q.readCount > CleanDeletionsReadCount]_vars

\* A janitor cycle has just left in place the row of a device that polled
\* exactly 100 times and the row of a device that never polled.
C31_Witness ==
    /\ last.req.op = "trigger-cron"
    /\ \E q \in DOMAIN deletionRequests : q.readCount = CleanDeletionsReadCount
    /\ \E q \in DOMAIN deletionRequests : q.readCount = 0

----------------------------------------------------------------------------
(* SpecFloor: cron cycles against a feed that names a tag near zero, or a  *)
(* name that is no tag, while any of the tags around zero has artifacts.   *)

FloorTags == {Tag("v0", n) : n \in (0 - 3)..1}

FloorInputs ==
    {[feed |-> FeedLatest(Tag("v0", n)), published |-> P] :
        n \in (0 - 2)..MaxTag, P \in SUBSET FloorTags}
    \cup {[feed |-> FeedLatest(t), published |-> P \cup X] :
             t \in OddNames, P \in {{}, FloorTags}, X \in SUBSET OddNames}

NextFloor ==
    \/ \E in \in FloorInputs : Cron(in.feed, in.published)
    \/ Download

SpecFloor == Init /\ [][NextFloor]_vars

\* C33: an invalid initial tag that decrementVersion refuses (UNKNOWN, not
\* two parts, a second part that is no integer) is the tag the resolver
\* settles on; decrementVersion turns any other tag into the tag with the
\* same prefix and the number one lower, below zero too, and the resolver
\* settles on that tag when it is valid and the initial tag is not.
C33_UndecrementableKeepsInitial ==
    ResolvedFromFeed =>
        LET initial == upstream.feed.name
            published == upstream.published
        IN  /\ (initial \notin published /\ ~Decrementable(initial))
                  => ReleaseVersion = initial /\ ~decrementVersion(initial).ok
            /\ Decrementable(initial)
                  => decrementVersion(initial)
                        = [ok |-> TRUE,
                           version |-> <<initial[1], Numeral(0, initial[2].n - 1)>>]
            /\ (Decrementable(initial) /\ initial \notin published
                    /\ Below(initial, 1) \in published)
                  => ReleaseVersion = Below(initial, 1)

\* The feed named a tag whose second part is no number; it has no artifacts,
\* other names have, and the resolver kept the name.
C33_Witness ==
    /\ ResolvedFromFeed
    /\ upstream.feed.name = <<Text("v0"), Text("beta")>>
    /\ upstream.feed.name \notin upstream.published
    /\ UNKNOWN \in upstream.published
    /\ ReleaseVersion = upstream.feed.name

----------------------------------------------------------------------------
(* SpecUsage: bootstrap requests in flight at once, the statements of      *)
(* updateUsageData being steps of their own.  usage_data has a unique      *)
(* index on (user_id, device_id), and updateUsageData does not look at the *)
(* result of its Create.                                                   *)

CreateUsageRowUnindexed(us, row) == Create(us, row)

\* The Create of updateUsageData under the unique index: the insert of a
\* second row for the pair fails and the table stays as it is.
CreateUsageRow(us, row) ==
    IF \E r \in DOMAIN us : r.userId = row.userId /\ r.deviceId = row.deviceId
    THEN us
    ELSE Create(us, row)

\* The statements of apiBootstrapHandler, in its order.
BootstrapSteps == <<"usage-find", "usage-write", "read">>

BootstrapStep(p) ==
    /\ p.req.op = "bootstrap" /\ ~p.done
    /\ LET u == p.req.userId
           d == p.req.deviceId
           step == BootstrapSteps[p.pc]
           mine == {r \in DOMAIN usage : r.userId = u /\ r.deviceId = d}
       IN  Run(p,
               Advance(CASE step = "usage-find" -> [p EXCEPT !.found = Where(usage, mine)]
                         [] step = "read" ->
                              [p EXCEPT !.body =
                                  Where(entries, {r \in DOMAIN entries : r.userId = u})]
                         [] OTHER -> p, BootstrapSteps),
               IF step = "usage-write" /\ p.found = EmptyBag
               THEN [Store EXCEPT !.usage =
                        CreateUsageRow(usage, [userId |-> u, deviceId |-> d,
                                               numEntriesHandled |-> 0])]
               ELSE Store)

BootstrapRequest(u, d) == Request("bootstrap", u, d, "", NoBatch, NoRequest)

UsageBounds == Count(procs) <= MaxDevices

NextUsage ==
    \/ \E u \in Users, d \in DeviceIds : Accept(BootstrapRequest(u, d)) /\ UsageBounds'
    \/ \E p \in DOMAIN procs : BootstrapStep(p)

SpecUsage == Init /\ [][NextUsage]_vars

\* C34: usage_data holds one row at most for each (userId, deviceId).
C34_OneUsageRowPerPair ==
    \A r \in DOMAIN usage :
        Count(Where(usage, {x \in DOMAIN usage :
                              x.userId = r.userId /\ x.deviceId = r.deviceId})) = 1

\* Two requests of one device have both looked for the device's row before
\* either created it, and both have returned.
C34_Witness ==
    /\ \E p \in DOMAIN procs :
          /\ p.done /\ p.found = EmptyBag
          /\ CopiesIn(p, procs) >= 2
    /\ usage # EmptyBag

----------------------------------------------------------------------------
(* SpecPermanent: an entry is submitted and deleted; devices poll only     *)
(* once the deletion request is stored, while the entry may be submitted   *)
(* again and dumped to a device that registers late.                       *)

PermanentBounds ==
    /\ \A r \in DOMAIN entries : r.readCount <= MaxReadCount
    /\ \A r \in DOMAIN usage : r.numEntriesHandled <= MaxEntries

NextPermanent ==
    \/ \E d \in DeviceIds : Unregistered("u1", d) /\ Register("u1", d) /\ PermanentBounds'
    \/ \E batch \in PollBatches : Unsent(batch) /\ Submit(batch) /\ PermanentBounds'
    \/ \E request \in DelRequests :
          Unrequested(request) /\ AddDeletionRequest(request) /\ PermanentBounds'
    \/ \E rd \in DeviceIds, batch \in PollBatches :
          EmptyMailbox(rd) /\ SubmitDump("u1", "A", rd, batch) /\ PermanentBounds'
    \/ \E d \in DeviceIds :
          deletionRequests # EmptyBag /\ Query("u1", d) /\ PermanentBounds'
    \/ \E d \in DeviceIds :
          deletionRequests # EmptyBag /\ Bootstrap("u1", d) /\ PermanentBounds'

SpecPermanent == Init /\ [][NextPermanent]_vars

\* Every registered device has polled its mailbox since the deletion request
\* was stored: it made the poll served last, or its mailbox holds a row that
\* a poll has counted.
EveryDevicePolled ==
    /\ last.req.op = "query" /\ last.ok
    /\ \A dev \in DOMAIN devices :
          \/ dev.deviceId = last.req.deviceId
          \/ \E r \in DOMAIN entries : r.deviceId = dev.deviceId /\ r.readCount >= 1

\* C37: once every device has polled after the deletion request was stored,
\* no Query or Bootstrap response contains an entry the request names.
C37_DeletedEntryStaysGone ==
    [][(EveryDevicePolled /\ (Served("query") \/ Served("bootstrap"))) =>
          \A r \in DOMAIN last'.body, q \in DOMAIN deletionRequests :
              q.userId = r.userId =>
                  \A m \in q.messages : r.encryptedData # <<m.deviceId, m.date>>]_vars

====
